---- MODULE Spec2Model ----
(***************************************************************************)
(* Snapshot-diff event reconstruction of the CDP bot (src/cdp.py) and the  *)
(* poll loops of the CDP bot and of the redemption bot                     *)
(* (src/redemptions.py).                                                   *)
(*                                                                         *)
(* generate_cdp_events(old_list, new_list) is modelled operator by         *)
(* operator; the specification Spec draws the two snapshots from a bounded *)
(* pool of position records and calls the function on them.  The           *)
(* specification SpecBots runs one bot process, one iteration of its       *)
(* `while True` loop per step.                                             *)
(*                                                                         *)
(* Amounts. The API gives integer lovelace; the code divides by 1e6 to get *)
(* ADA.  TLC's integers are 32 bit and 25,000 ADA is 2.5e10 lovelace, so   *)
(* the model counts amounts in thousands of lovelace: the divisor 1e6 of   *)
(* the code is UnitsPerAda = 1000 here, and every amount of the pool is a  *)
(* whole number of ADA, so that the float division of the code is exact    *)
(* and \div computes it.                                                   *)
(***************************************************************************)
EXTENDS Integers, Sequences, FiniteSets, TLC

VARIABLES
    old_list,   \* the previous snapshot handed to generate_cdp_events
    new_list,   \* the current snapshot handed to generate_cdp_events
    called,     \* TRUE once generate_cdp_events was called on the pair
    repeated,   \* TRUE once it was called on the pair again
    raised,     \* TRUE when the last call ended with an exception (KeyError)
    events,     \* the list the last call returned (<<>> before any call)
    bot,        \* the program this process runs ("none": no bot process)
    pc,         \* "running", or how the process ended
    prev_cdps,  \* cdp.py main: the carried response of /api/cdps
    prev_redemptions,   \* redemptions.py main: the carried list
    last_fetched,       \* the last response a fetch of the bot returned
    cycle,      \* what the last iteration of the loop did
    last_lq,    \* liquidations.py main: the last processed liquidation
    clock,      \* lp_rewards_epoch_bot.py: time.time() at the last iteration
    epoch_tracking_file,    \* last_posted_epoch.json: the epoch it stores
    processed_links,        \* pocop.py main: the set processed_links
    processed_links_file,   \* processed_links.json: the links it stores
    times_posted    \* how often each thing was delivered to the webhook (up to 2)

call_vars == <<old_list, new_list, called, repeated, raised, events>>

bot_vars == <<bot, pc, prev_cdps, prev_redemptions, last_fetched, cycle>>

later_vars == <<last_lq, clock, epoch_tracking_file, processed_links,
                processed_links_file, times_posted>>

vars == <<old_list, new_list, called, repeated, raised, events,
          bot, pc, prev_cdps, prev_redemptions, last_fetched, cycle,
          last_lq, clock, epoch_tracking_file, processed_links,
          processed_links_file, times_posted>>

----------------------------------------------------------------------------
(* Bounds *)

\* longest snapshot drawn
MaxLen == 2

\* last Cardano epoch the clock of the LP rewards bot reaches
MaxEpoch == 3

----------------------------------------------------------------------------
(* Values *)

\* Python's None (JSON null): a value no owner string and no tx id equals
None == "<None>"

\* an optional float: absent (None) or present
NoValue == <<>>
Some(x) == <<x>>

\* the divisor 1e6 (lovelace per ADA), in the model's unit of 1000 lovelace
UnitsPerAda == 1000

\* x / 1e6
Div1e6(x) == x \div UnitsPerAda

Abs(x) == IF x < 0 THEN -x ELSE x

\* CdpEventType
CdpEventType == {"OPEN", "CLOSE", "DEPOSIT", "WITHDRAW", "FREEZE", "MERGE"}

\* CdpEvent
CdpEvent(type, ada, new_collateral, tvl, iasset_name, debt, owner, tx_id) ==
    [type |-> type, ada |-> ada, new_collateral |-> new_collateral, tvl |-> tvl,
     iasset_name |-> iasset_name, debt |-> debt, owner |-> owner, tx_id |-> tx_id]

\* one record of the /api/cdps response
Cdp(owner, collateralAmount, mintedAmount, asset, output_hash) ==
    [owner |-> owner, collateralAmount |-> collateralAmount,
     mintedAmount |-> mintedAmount, asset |-> asset, output_hash |-> output_hash]

----------------------------------------------------------------------------
(* Python dicts: insertion-ordered, a repeated key keeps its first position *)
(* and takes the last value.  A dict is a sequence of [key, value] items.   *)

Indices(s) == [i \in 1..Len(s) |-> i]

LastIndexOf(keys, k) ==
    CHOOSE j \in DOMAIN keys :
        keys[j] = k /\ \A m \in DOMAIN keys : keys[m] = k => m <= j

\* {keys[i]: list[i] for i in range(len(list))}
DictOf(list, keys) ==
    LET first == SelectSeq(Indices(keys),
                           LAMBDA i : \A j \in 1..(i - 1) : keys[j] # keys[i])
    IN  [n \in 1..Len(first) |->
            [key |-> keys[first[n]],
             value |-> list[LastIndexOf(keys, keys[first[n]])]]]

\* key in d
HasKey(d, k) == \E n \in DOMAIN d : d[n].key = k

\* d[key], for a key of d
Lookup(d, k) == d[CHOOSE n \in DOMAIN d : d[n].key = k].value

----------------------------------------------------------------------------
(* generate_cdp_events and its helpers *)

\* [d for d in list if d['owner'] is not None]
with_owner(list) == SelectSeq(list, LAMBDA d : d.owner # None)

\* [d for d in list if d['owner'] is None]
without_owner(list) == SelectSeq(list, LAMBDA d : d.owner = None)

\* {(d['owner'], d['asset']): d for d in list}
dict_with_owner(list) ==
    DictOf(list, [i \in 1..Len(list) |-> <<list[i].owner, list[i].asset>>])

\* {(d['collateralAmount'], d['mintedAmount'], d['asset']): d for d in list}
dict_without_owner(list) ==
    DictOf(list, [i \in 1..Len(list) |->
        <<list[i].collateralAmount, list[i].mintedAmount, list[i].asset>>])

RECURSIVE SumSeq(_)
SumSeq(s) == IF s = <<>> THEN 0 ELSE s[1] + SumSeq(Tail(s))

\* tvl_of summing the owned records only
tvl_of_owned(new_list_) ==
    SumSeq([i \in 1..Len(with_owner(new_list_)) |->
        Div1e6(with_owner(new_list_)[i].collateralAmount)])

\* sum([x['collateralAmount'] / 1e6 for x in new_list])
tvl_of(new_list_) ==
    SumSeq([i \in 1..Len(new_list_) |-> Div1e6(new_list_[i].collateralAmount)])

\* create_cdp_event(event_type, cdp, tvl, new_collateral=None, tx_id=None);
\* new_collateral is NoValue or Some(x), tx_id is None or a string
create_cdp_event(event_type, cdp, tvl, new_collateral, tx_id) ==
    CdpEvent(event_type,
             Div1e6(cdp.collateralAmount),
             IF new_collateral # NoValue
                 THEN new_collateral
                 ELSE Some(Div1e6(cdp.collateralAmount)),
             tvl,
             cdp.asset,
             Div1e6(cdp.mintedAmount),
             cdp.owner,
             IF tx_id # None THEN tx_id ELSE cdp.output_hash)

\* create_deposit_withdraw_or_freeze_event: the value is cdp_events after the
\* in-place appends
create_deposit_withdraw_or_freeze_event(old_cdp, new_cdp, tvl, cdp_events) ==
    IF new_cdp.collateralAmount # old_cdp.collateralAmount
    THEN Append(cdp_events,
            CdpEvent(IF new_cdp.collateralAmount > old_cdp.collateralAmount
                         THEN "DEPOSIT" ELSE "WITHDRAW",
                     Div1e6(Abs(new_cdp.collateralAmount - old_cdp.collateralAmount)),
                     Some(Div1e6(new_cdp.collateralAmount)),
                     tvl,
                     new_cdp.asset,
                     Div1e6(new_cdp.mintedAmount),
                     new_cdp.owner,
                     new_cdp.output_hash))
    ELSE IF new_cdp.owner = None /\ old_cdp.owner # None
    THEN LET merged ==
                 IF old_cdp.owner = "" \/ old_cdp.owner = "NULL"
                 THEN Append(cdp_events,
                         CdpEvent("MERGE",
                                  Div1e6(old_cdp.collateralAmount),
                                  Some(Div1e6(new_cdp.collateralAmount)),
                                  tvl,
                                  old_cdp.asset,
                                  Div1e6(old_cdp.mintedAmount),
                                  None,
                                  old_cdp.output_hash))
                 ELSE cdp_events
         IN  Append(merged,
                 CdpEvent("FREEZE",
                          Div1e6(old_cdp.collateralAmount),
                          Some(Div1e6(new_cdp.collateralAmount)),
                          tvl,
                          old_cdp.asset,
                          Div1e6(old_cdp.mintedAmount),
                          old_cdp.owner,
                          old_cdp.output_hash))
    ELSE cdp_events

\* find_corresponding_cdp_with_owner returning the last match instead
find_last_corresponding_cdp_with_owner(cdp_list, cdp_without_owner) ==
    LET match == SelectSeq(cdp_list, LAMBDA cdp :
                     /\ cdp.collateralAmount = cdp_without_owner.collateralAmount
                     /\ cdp.mintedAmount = cdp_without_owner.mintedAmount
                     /\ cdp.asset = cdp_without_owner.asset)
    IN  IF match = <<>> THEN <<>> ELSE <<match[Len(match)]>>

\* find_corresponding_cdp_with_owner: <<cdp>> for the first match, <<>> for None
find_corresponding_cdp_with_owner(cdp_list, cdp_without_owner) ==
    LET match == SelectSeq(cdp_list, LAMBDA cdp :
                     /\ cdp.collateralAmount = cdp_without_owner.collateralAmount
                     /\ cdp.mintedAmount = cdp_without_owner.mintedAmount
                     /\ cdp.asset = cdp_without_owner.asset)
    IN  IF match = <<>> THEN <<>> ELSE <<match[1]>>

\* The state of a call in progress: the list cdp_events, the dict frozen (its
\* keys), and whether an exception left the function.
CallState(cdp_events, frozen, exc) ==
    [cdp_events |-> cdp_events, frozen |-> frozen, exc |-> exc]

\* "Process CDPs with owners": the loop over new_dict_with_owner.items(), from
\* item i on.  old_dict_with_owner[new_key] raises KeyError for a missing key.
RECURSIVE process_with_owners(_, _, _, _, _)
process_with_owners(new_dict_with_owner, i, old_dict_with_owner, tvl, st) ==
    IF i > Len(new_dict_with_owner) \/ st.exc
    THEN st
    ELSE LET new_key == new_dict_with_owner[i].key
             new_cdp == new_dict_with_owner[i].value
         IN  IF ~HasKey(old_dict_with_owner, new_key) /\ new_cdp.owner # "NULL"
             THEN process_with_owners(new_dict_with_owner, i + 1,
                      old_dict_with_owner, tvl,
                      [st EXCEPT !.cdp_events =
                          Append(@, create_cdp_event("OPEN", new_cdp, tvl, NoValue, None))])
             ELSE IF ~HasKey(old_dict_with_owner, new_key)
             THEN [st EXCEPT !.exc = TRUE]
             ELSE process_with_owners(new_dict_with_owner, i + 1,
                      old_dict_with_owner, tvl,
                      [st EXCEPT !.cdp_events =
                          create_deposit_withdraw_or_freeze_event(
                              Lookup(old_dict_with_owner, new_key), new_cdp, tvl, @)])

\* "Process CDPs without owners": the loop over new_dict_without_owner.items()
RECURSIVE process_without_owners(_, _, _, _, _, _)
process_without_owners(new_dict_without_owner, i, old_dict_without_owner, old_with_owner, tvl, st) ==
    IF i > Len(new_dict_without_owner) \/ st.exc
    THEN st
    ELSE LET new_key == new_dict_without_owner[i].key
             new_cdp == new_dict_without_owner[i].value
             old_cdp == find_corresponding_cdp_with_owner(old_with_owner, new_cdp)
         IN  process_without_owners(new_dict_without_owner, i + 1,
                 old_dict_without_owner, old_with_owner, tvl,
                 IF ~HasKey(old_dict_without_owner, new_key) /\ old_cdp # <<>>
                 THEN CallState(
                          Append(st.cdp_events,
                              create_cdp_event("FREEZE", old_cdp[1], tvl,
                                  Some(new_cdp.collateralAmount),
                                  new_cdp.output_hash)),
                          st.frozen \cup {<<old_cdp[1].owner, old_cdp[1].asset>>},
                          st.exc)
                 ELSE st)

\* the loop over old_dict_with_owner.items(): CLOSE events
RECURSIVE process_closed(_, _, _, _, _)
process_closed(old_dict_with_owner, i, new_dict_with_owner, tvl, st) ==
    IF i > Len(old_dict_with_owner) \/ st.exc
    THEN st
    ELSE LET old_key == old_dict_with_owner[i].key
             old_cdp == old_dict_with_owner[i].value
         IN  process_closed(old_dict_with_owner, i + 1, new_dict_with_owner, tvl,
                 IF old_key \in st.frozen
                 THEN st
                 ELSE IF ~HasKey(new_dict_with_owner, old_key)
                 THEN [st EXCEPT !.cdp_events =
                          Append(@, create_cdp_event("CLOSE", old_cdp, tvl, NoValue, None))]
                 ELSE st)

\* new_cdp_events as a list that outlives the call (a shared default list)
shared_cdp_events == events

\* cdp_events = []
new_cdp_events == <<>>

\* generate_cdp_events with the CLOSE loop run before the ownerless loop
generate_cdp_events_closing_first(old_list_, new_list_) ==
    LET old_with_owner == with_owner(old_list_)
        old_dict_with_owner == dict_with_owner(old_with_owner)
        new_dict_with_owner == dict_with_owner(with_owner(new_list_))
        tvl == tvl_of(new_list_)
        st1 == process_with_owners(new_dict_with_owner, 1, old_dict_with_owner, tvl,
                   CallState(new_cdp_events, {}, FALSE))
        st2 == process_closed(old_dict_with_owner, 1, new_dict_with_owner, tvl, st1)
    IN  process_without_owners(dict_without_owner(without_owner(new_list_)), 1,
            dict_without_owner(without_owner(old_list_)), old_with_owner, tvl, st2)

\* generate_cdp_events(old_list, new_list): the call's final state; its
\* cdp_events is the list returned unless exc says an exception left the call
generate_cdp_events(old_list_, new_list_) ==
    LET old_with_owner == with_owner(old_list_)
        old_without_owner == without_owner(old_list_)
        new_with_owner == with_owner(new_list_)
        new_without_owner == without_owner(new_list_)
        old_dict_with_owner == dict_with_owner(old_with_owner)
        new_dict_with_owner == dict_with_owner(new_with_owner)
        old_dict_without_owner == dict_without_owner(old_without_owner)
        new_dict_without_owner == dict_without_owner(new_without_owner)
        tvl == tvl_of(new_list_)
        st1 == process_with_owners(new_dict_with_owner, 1, old_dict_with_owner, tvl,
                   CallState(new_cdp_events, {}, FALSE))
        st2 == process_without_owners(new_dict_without_owner, 1,
                   old_dict_without_owner, old_with_owner, tvl, st1)
    IN  process_closed(old_dict_with_owner, 1, new_dict_with_owner, tvl, st2)

----------------------------------------------------------------------------
(* The snapshots drawn *)

\* a real owner: not null and neither of the two sentinel strings of the API
RealOwner(o) == o \notin {None, "", "NULL"}

\* The position records a snapshot is drawn from: collateral of 1,000 and of
\* 25,000 ADA, debt of 500 and of 600, all of the asset iUSD; the owners alice
\* and bob, the sentinel strings "" and "NULL", and null.
PositionPool ==
    {Cdp("alice", 1000000, 500000, "iUSD", "tx_a1"),
     Cdp("alice", 25000000, 500000, "iUSD", "tx_a2"),
     Cdp("alice", 1000000, 600000, "iUSD", "tx_a3"),
     Cdp("bob", 1000000, 500000, "iUSD", "tx_b1"),
     Cdp("", 1000000, 500000, "iUSD", "tx_e1"),
     Cdp("", 25000000, 500000, "iUSD", "tx_e2"),
     Cdp("NULL", 1000000, 500000, "iUSD", "tx_n1"),
     Cdp(None, 1000000, 500000, "iUSD", "tx_f1"),
     Cdp(None, 25000000, 500000, "iUSD", "tx_f2")}

\* Within one snapshot a real owner holds at most one position per asset.
UniqueOwnedKeys(list) ==
    \A i, j \in DOMAIN list :
        (i # j /\ RealOwner(list[i].owner) /\ list[i].owner = list[j].owner)
            => list[i].asset # list[j].asset

Snapshots ==
    {s \in UNION {[1..n -> PositionPool] : n \in 0..MaxLen} : UniqueOwnedKeys(s)}

----------------------------------------------------------------------------
(* The specification *)

\* a response of /api/cdps: the verdict of validate_cdps_json on it and the
\* position records generate_cdp_events reads of it
Response(valid, cdps) == [valid |-> valid, cdps |-> cdps]

\* the carried list of redemptions.py: the tx_hash strings and the dicts it
\* holds (the loop only asks whether a value is in the list)
Redemptions(tx_hashes, dicts) == [tx_hashes |-> tx_hashes, dicts |-> dicts]

\* an iteration of a poll loop: the carried value it started with (old), the
\* last response fetched before it (before), the response its fetch returned
\* (fetched, <<>> if the fetch raised), the arguments it diffed (diffed, <<>>
\* if it did not come to diff), whether the diff returned, the events it
\* returned, the events handed to discord_comment in order, whether the
\* iteration before it ended at a failed fetch, and how this one ended
Cycle(old, before, fetched, diffed, returned, evs, handed, retry, outcome) ==
    [old |-> old, before |-> before, fetched |-> fetched, diffed |-> diffed,
     returned |-> returned, events |-> evs, handed |-> handed,
     retry |-> retry, outcome |-> outcome]

\* no iteration yet
NoCycle ==
    Cycle(<<>>, <<>>, <<>>, <<>>, FALSE, <<>>, <<>>, FALSE, "none")

\* the process is not the liquidation, the LP rewards or the PoCoP bot
NoLaterBot ==
    /\ last_lq = None
    /\ clock = 0
    /\ epoch_tracking_file = None
    /\ processed_links = {}
    /\ processed_links_file = {}
    /\ times_posted = <<>>

\* no bot process: the function is called on its own
NoBot ==
    /\ NoLaterBot
    /\ bot = "none"
    /\ pc = "running"
    /\ prev_cdps = Response(TRUE, <<>>)
    /\ prev_redemptions = Redemptions({}, {})
    /\ last_fetched = Response(TRUE, <<>>)
    /\ cycle = NoCycle

Init ==
    /\ old_list \in Snapshots
    /\ new_list \in Snapshots
    /\ called = FALSE
    /\ repeated = FALSE
    /\ raised = FALSE
    /\ events = <<>>
    /\ NoBot

\* the caller's view of a call that ended in state st: the list returned, or
\* the exception
Outcome(st) ==
    /\ raised' = st.exc
    /\ events' = IF st.exc THEN <<>> ELSE st.cdp_events

\* One call of generate_cdp_events(old_list, new_list): it returns its list or
\* a KeyError leaves it.  The pair may be handed to the function again.
Call ==
    /\ Outcome(generate_cdp_events(old_list, new_list))
    /\ called' = TRUE
    /\ repeated' = called
    /\ UNCHANGED <<old_list, new_list>>
    /\ UNCHANGED bot_vars
    /\ UNCHANGED later_vars

Next == Call

Spec == Init /\ [][Next]_vars

----------------------------------------------------------------------------
(* The poll loop of the CDP bot (cdp.py, __main__) *)

\* cdp.py:418: more events than this in one iteration end the process
MaxEvents == 20

\* cdp.py:427: an event of at least this many ADA is posted
MinAda == 25000

\* the generate_cdp_events call did not happen or did not return
NotCalled ==
    /\ old_list = <<>>
    /\ new_list = <<>>
    /\ called = FALSE
    /\ repeated = FALSE
    /\ raised = FALSE
    /\ events = <<>>

\* The records the polled responses are drawn from: alice with 1,000 and with
\* 25,000 ADA, and the sentinel owners "" and "NULL".
PolledPool ==
    {Cdp("alice", 1000000, 500000, "iUSD", "tx_a1"),
     Cdp("alice", 25000000, 500000, "iUSD", "tx_a2"),
     Cdp("", 25000000, 500000, "iUSD", "tx_e2"),
     Cdp("NULL", 1000000, 500000, "iUSD", "tx_n1")}

\* n positions of 25,000 ADA of n owners
Wave(n) ==
    [i \in 1..n |-> Cdp(ToString(i), 25000000, 500000, "iUSD", ToString(i))]

\* the lists of records a response is drawn from
PolledSnapshots ==
    {c \in UNION {[1..n -> PolledPool] : n \in 0..MaxLen} : UniqueOwnedKeys(c)}

\* What fetch_cdps may return: a list of records the schema accepts, a list
\* (here of one record at most) the schema rejects, which is archived and
\* returned all the same, or a wave of MaxEvents or MaxEvents + 1 positions.
Responses ==
    {Response(TRUE, cdps) : cdps \in PolledSnapshots}
    \cup {Response(FALSE, <<>>)}
    \cup {Response(FALSE, <<cdp>>) : cdp \in PolledPool}
    \cup {Response(TRUE, Wave(n)) : n \in {MaxEvents, MaxEvents + 1}}

\* cdp.py:418
too_many_or_as_many(cdp_events) == Len(cdp_events) >= MaxEvents

too_many(cdp_events) == Len(cdp_events) > MaxEvents

\* cdp.py:427
above_min_ada(event) == event.ada > MinAda

at_least_min_ada(event) == event.ada >= MinAda

\* prev_cdps after an iteration that dropped it when the fetch raised
carried_or_dropped(prev, cdps, outcome) ==
    IF outcome = "fetch_failed" THEN Response(TRUE, <<>>)
    ELSE IF outcome \in {"sent", "delivery_failed"} THEN cdps ELSE prev

\* prev_cdps after an iteration that assigned it before the diff
carried_before_diff(prev, cdps, outcome) ==
    IF outcome \in {"KeyError", "sent", "delivery_failed"} THEN cdps ELSE prev

\* prev_cdps after an iteration: line 424 is reached when the fetch and the
\* diff returned and sys.exit was not called; it comes before the posting, so
\* a failed delivery finds it assigned
carried(prev, cdps, outcome) ==
    IF outcome \in {"sent", "delivery_failed"} THEN cdps ELSE prev

\* lines 426-431: the events handed to discord_comment, in order, when the
\* fail_at-th delivery raises (0: none does); the exception leaves the loop
handed_over(to_post, fail_at) ==
    IF fail_at = 0 THEN to_post ELSE SubSeq(to_post, 1, fail_at)

InitCdpBot ==
    /\ NotCalled
    /\ NoLaterBot
    /\ bot = "cdp"
    /\ pc = "running"
    /\ prev_cdps \in Responses
    /\ last_fetched = prev_cdps
    /\ prev_redemptions = Redemptions({}, {})
    /\ cycle = Cycle(prev_cdps, prev_cdps, <<>>, <<>>, FALSE, <<>>, <<>>, FALSE, "none")

\* An iteration whose fetch_cdps raises one of the errors of lines 433-442:
\* the handler logs a warning and the loop goes on.
CdpFetchFails ==
    /\ bot = "cdp"
    /\ pc = "running"
    /\ prev_cdps' = carried(prev_cdps, prev_cdps, "fetch_failed")
    /\ cycle' = Cycle(prev_cdps, last_fetched, <<>>, <<>>, FALSE, <<>>, <<>>,
                      cycle.outcome = "fetch_failed", "fetch_failed")
    /\ UNCHANGED <<bot, pc, prev_redemptions, last_fetched>>
    /\ UNCHANGED call_vars
    /\ UNCHANGED later_vars

\* the rest of an iteration whose fetch returned json_response and whose
\* generate_cdp_events call ended in state st
CdpDiffed(json_response, st) ==
    /\ last_fetched' = json_response
    /\ IF st.exc
       THEN \* KeyError is not caught: the process ends
            /\ pc' = "KeyError"
            /\ prev_cdps' = carried(prev_cdps, json_response, "KeyError")
            /\ cycle' = Cycle(prev_cdps, last_fetched, <<json_response>>,
                              <<prev_cdps, json_response>>, FALSE, <<>>, <<>>,
                              cycle.outcome = "fetch_failed", "KeyError")
       ELSE IF too_many(st.cdp_events)
       THEN \* sys.exit(1): SystemExit is not caught either
            /\ pc' = "sys.exit(1)"
            /\ prev_cdps' = carried(prev_cdps, json_response, "sys.exit(1)")
            /\ cycle' = Cycle(prev_cdps, last_fetched, <<json_response>>,
                              <<prev_cdps, json_response>>, TRUE, st.cdp_events,
                              <<>>, cycle.outcome = "fetch_failed", "sys.exit(1)")
       ELSE \E fail_at \in 0..Len(SelectSeq(st.cdp_events, at_least_min_ada)) :
                LET outcome == IF fail_at = 0 THEN "sent" ELSE "delivery_failed"
                IN  /\ pc' = "running"
                    /\ prev_cdps' = carried(prev_cdps, json_response, outcome)
                    /\ cycle' = Cycle(prev_cdps, last_fetched, <<json_response>>,
                                      <<prev_cdps, json_response>>, TRUE,
                                      st.cdp_events,
                                      handed_over(SelectSeq(st.cdp_events,
                                                            at_least_min_ada),
                                                  fail_at),
                                      cycle.outcome = "fetch_failed", outcome)

\* An iteration whose fetch_cdps returns: lines 410-431.
CdpCycle ==
    /\ bot = "cdp"
    /\ pc = "running"
    /\ \E json_response \in Responses :
           CdpDiffed(json_response,
                     generate_cdp_events(prev_cdps.cdps, json_response.cdps))
    /\ UNCHANGED <<bot, prev_redemptions>>
    /\ UNCHANGED call_vars
    /\ UNCHANGED later_vars

----------------------------------------------------------------------------
(* The poll loop of the redemption bot (redemptions.py, __main__) *)

\* redemptions.py:183
MIN_ADA_REDEEMED == 100

\* a record of the /api/redemptions response, as generate_redemption_events
\* reads it
Redemption(tx_hash, lovelaces_returned, interest, redeemed_amount, asset, processing_fee_lovelaces) ==
    [tx_hash |-> tx_hash, lovelaces_returned |-> lovelaces_returned,
     interest |-> interest, redeemed_amount |-> redeemed_amount,
     asset |-> asset, processing_fee_lovelaces |-> processing_fee_lovelaces]

\* the dataclass RedemptionEvent
RedemptionEvent(ada_redeemed, interest, asset_redeemed, asset_name, processing_fee, tx_id) ==
    [ada_redeemed |-> ada_redeemed, interest |-> interest,
     asset_redeemed |-> asset_redeemed, asset_name |-> asset_name,
     processing_fee |-> processing_fee, tx_id |-> tx_id]

\* redemptions of 99, of 100 and of 150 ADA
RedemptionPool ==
    {Redemption("h1", 99000, 1000, 50000, "iUSD", 2000),
     Redemption("h2", 100000, 1000, 50000, "iUSD", 2000),
     Redemption("h3", 150000, 1000, 50000, "iUSD", 2000)}

\* what fetch_redemptions may return
RedemptionLists == UNION {[1..n -> RedemptionPool] : n \in 0..MaxLen}

\* generate_redemption_events from its i-th record on: st holds the list
\* redemption_events and the tx_hash values of old_list, which the function
\* appends to
RECURSIVE redemption_loop(_, _, _)
redemption_loop(new_list_, i, st) ==
    IF i > Len(new_list_) THEN st
    ELSE LET new_redemption == new_list_[i]
         IN  IF new_redemption.tx_hash \notin st.old_list
             THEN redemption_loop(new_list_, i + 1,
                      [redemption_events |->
                           Append(st.redemption_events,
                               RedemptionEvent(
                                   Div1e6(new_redemption.lovelaces_returned),
                                   new_redemption.interest,
                                   Div1e6(new_redemption.redeemed_amount),
                                   new_redemption.asset,
                                   Div1e6(new_redemption.processing_fee_lovelaces),
                                   new_redemption.tx_hash)),
                       old_list |-> st.old_list \cup {new_redemption.tx_hash}])
             ELSE redemption_loop(new_list_, i + 1, st)

\* generate_redemption_events: the list returned and old_list as it leaves it
generate_redemption_events(old_list_, new_list_) ==
    redemption_loop(new_list_, 1,
                    [redemption_events |-> <<>>, old_list |-> old_list_])

\* redemptions.py:185
at_least_min_ada_redeemed(event) == event.ada_redeemed >= MIN_ADA_REDEEMED

\* lines 176-179: with events, the dicts of the response not yet in the list
\* are appended to it
with_new_dicts(dicts, redemptions, redemption_events) ==
    IF Len(redemption_events) > 0
    THEN dicts \cup {redemptions[i] : i \in DOMAIN redemptions}
    ELSE dicts

InitRedemptionBot ==
    /\ NotCalled
    /\ NoLaterBot
    /\ bot = "redemptions"
    /\ pc = "running"
    /\ prev_cdps = Response(TRUE, <<>>)
    /\ last_fetched = Response(TRUE, <<>>)
    /\ \E redemptions \in RedemptionLists :
           prev_redemptions =
               Redemptions({redemptions[i].tx_hash : i \in DOMAIN redemptions}, {})
    /\ cycle = Cycle(prev_redemptions, <<>>, <<>>, <<>>, FALSE, <<>>, <<>>, FALSE, "none")

\* An iteration whose fetch_redemptions raises one of the errors of lines
\* 193-202.
RedemptionFetchFails ==
    /\ bot = "redemptions"
    /\ pc = "running"
    /\ cycle' = Cycle(prev_redemptions, <<>>, <<>>, <<>>, FALSE, <<>>, <<>>,
                      cycle.outcome = "fetch_failed", "fetch_failed")
    /\ UNCHANGED <<bot, pc, prev_cdps, prev_redemptions, last_fetched>>
    /\ UNCHANGED call_vars
    /\ UNCHANGED later_vars

\* the rest of an iteration whose fetch returned redemptions and whose
\* generate_redemption_events call ended in state st
RedemptionDiffed(redemptions, st) ==
    \E fail_at \in 0..Len(SelectSeq(st.redemption_events, at_least_min_ada_redeemed)) :
        /\ prev_redemptions' =
               Redemptions(st.old_list,
                           with_new_dicts(prev_redemptions.dicts, redemptions,
                                          st.redemption_events))
        /\ cycle' = Cycle(prev_redemptions, <<>>, <<redemptions>>,
                          <<prev_redemptions.tx_hashes, redemptions>>, TRUE,
                          st.redemption_events,
                          handed_over(SelectSeq(st.redemption_events,
                                                at_least_min_ada_redeemed),
                                      fail_at),
                          cycle.outcome = "fetch_failed",
                          IF fail_at = 0 THEN "sent" ELSE "delivery_failed")

\* An iteration whose fetch_redemptions returns: lines 173-191.
RedemptionCycle ==
    /\ bot = "redemptions"
    /\ pc = "running"
    /\ \E redemptions \in RedemptionLists :
           RedemptionDiffed(redemptions,
               generate_redemption_events(prev_redemptions.tx_hashes, redemptions))
    /\ UNCHANGED <<bot, pc, prev_cdps, last_fetched>>
    /\ UNCHANGED call_vars
    /\ UNCHANGED later_vars

----------------------------------------------------------------------------
(* One bot process *)

InitBots == InitCdpBot \/ InitRedemptionBot

NextBots ==
    \/ CdpFetchFails
    \/ CdpCycle
    \/ RedemptionFetchFails
    \/ RedemptionCycle

SpecBots == InitBots /\ [][NextBots]_vars

----------------------------------------------------------------------------
(* What the claims speak of *)

\* the events of the returned list that name the position (o, a)
EventsOfKey(o, a) ==
    {i \in DOMAIN events : events[i].owner = o /\ events[i].iasset_name = a}

\* list holds a record of owner o and asset a
HoldsKey(list, o, a) ==
    \E i \in DOMAIN list : list[i].owner = o /\ list[i].asset = a

\* list holds an ownerless record with the amounts and asset of r
HoldsOwnerless(list, r) ==
    \E i \in DOMAIN list :
        /\ list[i].owner = None
        /\ list[i].collateralAmount = r.collateralAmount
        /\ list[i].mintedAmount = r.mintedAmount
        /\ list[i].asset = r.asset

Count(list, r) == Cardinality({i \in DOMAIN list : list[i] = r})

\* the two snapshots hold the same records, in any order
SameContent(a, b) ==
    Len(a) = Len(b) /\ \A r \in PositionPool : Count(a, r) = Count(b, r)

----------------------------------------------------------------------------
(* C1: when previous and current hold the same records, in any order, the  *)
(* call returns an empty event list.                                       *)
C1_SameContentNoEvents ==
    (called /\ SameContent(old_list, new_list)) => (~raised /\ events = <<>>)

----------------------------------------------------------------------------
(* C2: for every record r of current with a real owner whose (owner,       *)
(* asset) key is absent from previous, the call emits exactly one event    *)
(* for that key, an OPEN with collateralDelta = newCollateralTotal =       *)
(* r.collateralAmount / 1,000,000.                                         *)
C2_OpenForNewOwnedKey ==
    called =>
        \A i \in DOMAIN new_list :
            LET r == new_list[i]
            IN  (RealOwner(r.owner) /\ ~HoldsKey(old_list, r.owner, r.asset))
                => \E n \in DOMAIN events :
                       /\ EventsOfKey(r.owner, r.asset) = {n}
                       /\ events[n].type = "OPEN"
                       /\ events[n].ada = Div1e6(r.collateralAmount)
                       /\ events[n].new_collateral = Some(Div1e6(r.collateralAmount))

(* C3: for every real-owner key held by previous and by current with       *)
(* different collateralAmount the call emits exactly one event for the     *)
(* key: DEPOSIT if the collateral grew, WITHDRAW if it shrank, with        *)
(* collateralDelta = |current - previous| / 1,000,000 and                  *)
(* newCollateralTotal = current / 1,000,000.                               *)
C3_DepositOrWithdraw ==
    called =>
        \A i \in DOMAIN old_list, j \in DOMAIN new_list :
            LET p == old_list[i]
                c == new_list[j]
            IN  (/\ RealOwner(c.owner)
                 /\ p.owner = c.owner /\ p.asset = c.asset
                 /\ p.collateralAmount # c.collateralAmount)
                => \E n \in DOMAIN events :
                       /\ EventsOfKey(c.owner, c.asset) = {n}
                       /\ events[n].type =
                              IF c.collateralAmount > p.collateralAmount
                              THEN "DEPOSIT" ELSE "WITHDRAW"
                       /\ events[n].ada =
                              Div1e6(Abs(c.collateralAmount - p.collateralAmount))
                       /\ events[n].new_collateral = Some(Div1e6(c.collateralAmount))

(* C4: for every real-owner key of previous that current does not hold,    *)
(* with no ownerless record of the same amounts in current, the call emits *)
(* exactly one CLOSE event, whose newCollateralTotal and txId are absent   *)
(* and whose collateralDelta and debt come from the previous record.       *)
C4_CloseForVanishedKey ==
    called =>
        \A i \in DOMAIN old_list :
            LET p == old_list[i]
            IN  (/\ RealOwner(p.owner)
                 /\ ~HoldsKey(new_list, p.owner, p.asset)
                 /\ ~HoldsOwnerless(new_list, p))
                => \E n \in DOMAIN events :
                       /\ {m \in EventsOfKey(p.owner, p.asset) :
                              events[m].type = "CLOSE"} = {n}
                       /\ events[n].new_collateral = NoValue
                       /\ events[n].tx_id = None
                       /\ events[n].ada = Div1e6(p.collateralAmount)
                       /\ events[n].debt = Div1e6(p.mintedAmount)

\* the position p of previous is gone from the owned records of current and
\* its amounts show in current as an ownerless record new to current
LostOwner(p) ==
    /\ ~HoldsKey(new_list, p.owner, p.asset)
    /\ HoldsOwnerless(new_list, p)
    /\ ~HoldsOwnerless(old_list, p)

\* the output_hash values of current's ownerless records with p's amounts
OwnerlessHashes(p) ==
    {new_list[j].output_hash : j \in {k \in DOMAIN new_list :
        /\ new_list[k].owner = None
        /\ new_list[k].collateralAmount = p.collateralAmount
        /\ new_list[k].mintedAmount = p.mintedAmount
        /\ new_list[k].asset = p.asset}}

(* C5: when a real-owner position (o, a) of previous has no (o, a) key in  *)
(* current and its amounts appear in current as an ownerless record new to *)
(* current, the call emits exactly one FREEZE event with owner o and the   *)
(* txId of that ownerless record, and no CLOSE event for (o, a).           *)
C5_FreezeForLostOwner ==
    called =>
        \A i \in DOMAIN old_list :
            LET p == old_list[i]
            IN  (RealOwner(p.owner) /\ LostOwner(p))
                => /\ \E n \in DOMAIN events :
                          /\ {m \in EventsOfKey(p.owner, p.asset) :
                                 events[m].type = "FREEZE"} = {n}
                          /\ events[n].tx_id \in OwnerlessHashes(p)
                   /\ \A m \in EventsOfKey(p.owner, p.asset) :
                          events[m].type # "CLOSE"

(* C6: in the freeze scenario where the previous owner is itself a         *)
(* sentinel ("" or "NULL"), the call emits a MERGE event with owner absent *)
(* immediately before the FREEZE event, both with the collateral and debt  *)
(* of the vanished position.                                               *)
C6_MergeBeforeFreeze ==
    called =>
        \A i \in DOMAIN old_list :
            LET p == old_list[i]
            IN  (p.owner \in {"", "NULL"} /\ LostOwner(p))
                => \E n \in DOMAIN events :
                       /\ n + 1 \in DOMAIN events
                       /\ events[n].type = "MERGE"
                       /\ events[n].owner = None
                       /\ events[n + 1].type = "FREEZE"
                       /\ events[n + 1].owner = p.owner
                       /\ \A m \in {n, n + 1} :
                              /\ events[m].ada = Div1e6(p.collateralAmount)
                              /\ events[m].debt = Div1e6(p.mintedAmount)
                              /\ events[m].iasset_name = p.asset

\* the records of both snapshots
Records == {old_list[i] : i \in DOMAIN old_list} \cup {new_list[i] : i \in DOMAIN new_list}

(* C7: every amount of every event is the lovelace integer of a position   *)
(* record divided by 1,000,000 once: collateralDelta is a collateral (or a *)
(* difference of two) / 1,000,000, debt a mintedAmount / 1,000,000, tvl    *)
(* the current total / 1,000,000, and newCollateralTotal, where present, a *)
(* collateral / 1,000,000; a FREEZE event's newCollateralTotal is its      *)
(* ownerless record's collateralAmount / 1,000,000.                        *)
C7_AmountsDividedOnce ==
    called =>
        \A n \in DOMAIN events :
            LET e == events[n]
            IN  /\ e.ada \in
                      {Div1e6(r.collateralAmount) : r \in Records} \cup
                      {Div1e6(Abs(r.collateralAmount - q.collateralAmount)) :
                          r \in Records, q \in Records}
                /\ e.debt \in {Div1e6(r.mintedAmount) : r \in Records}
                /\ e.tvl = Div1e6(SumSeq([i \in DOMAIN new_list |->
                                             new_list[i].collateralAmount]))
                /\ e.new_collateral \in
                      {NoValue} \cup {Some(Div1e6(r.collateralAmount)) : r \in Records}
                /\ e.type = "FREEZE" =>
                      \E j \in DOMAIN new_list :
                          /\ new_list[j].owner = None
                          /\ new_list[j].output_hash = e.tx_id
                          /\ e.new_collateral = Some(Div1e6(new_list[j].collateralAmount))

(* C8: every event of the returned list carries the same tvl, the sum of   *)
(* collateralAmount over all records of the current snapshot, owned and    *)
(* ownerless, divided by 1,000,000; previous does not contribute.          *)
C8_TvlOfCurrent ==
    called =>
        \A n \in DOMAIN events :
            events[n].tvl = Div1e6(SumSeq([i \in DOMAIN new_list |->
                                             new_list[i].collateralAmount]))

\* a call returned two events for a current snapshot of an owned and an
\* ownerless record, its total differing from that of previous
C8_Witness ==
    /\ called
    /\ Len(events) = 2
    /\ \E i, j \in DOMAIN new_list :
           new_list[i].owner = None /\ RealOwner(new_list[j].owner)
    /\ old_list # <<>>
    /\ SumSeq([i \in DOMAIN new_list |-> new_list[i].collateralAmount])
           # SumSeq([i \in DOMAIN old_list |-> old_list[i].collateralAmount])

FirstOf(list, hit(_)) ==
    IF \E i \in DOMAIN list : hit(list[i])
    THEN CHOOSE i \in DOMAIN list :
             hit(list[i]) /\ \A j \in 1..(i - 1) : ~hit(list[j])
    ELSE 0

\* the first record of list with the owner and asset of event e
PosOfKey(list, e) ==
    FirstOf(list, LAMBDA d : d.owner = e.owner /\ d.asset = e.iasset_name)

\* the first ownerless record of list with the amounts and asset of event e
PosOfOwnerless(list, e) ==
    FirstOf(list, LAMBDA d : /\ d.owner = None
                             /\ Div1e6(d.collateralAmount) = e.ada
                             /\ Div1e6(d.mintedAmount) = e.debt
                             /\ d.asset = e.iasset_name)

\* the record of current an event other than CLOSE is about
PosInCurrent(e) ==
    IF e.type = "FREEZE" THEN PosOfOwnerless(new_list, e) ELSE PosOfKey(new_list, e)

(* C10 as claimed: every CLOSE event comes after every event of another    *)
(* kind, the CLOSE events keep the order of their keys in previous, and    *)
(* the other events keep the order of their records in current.            *)
C10_OrderAsClaimed ==
    called =>
        \A m, n \in DOMAIN events :
            m < n =>
                /\ events[m].type = "CLOSE" => events[n].type = "CLOSE"
                /\ (events[m].type = "CLOSE" /\ events[n].type = "CLOSE")
                      => PosOfKey(old_list, events[m]) < PosOfKey(old_list, events[n])
                /\ (events[m].type # "CLOSE" /\ events[n].type # "CLOSE")
                      => PosInCurrent(events[m]) <= PosInCurrent(events[n])

\* the loop of generate_cdp_events that emits events of this type
Phase(type) ==
    IF type = "CLOSE" THEN 3 ELSE IF type = "FREEZE" THEN 2 ELSE 1

(* C10, amended: the events come in three groups: first OPEN, DEPOSIT and  *)
(* WITHDRAW events, in the order in which their (owner, asset) keys first  *)
(* occur in current; then the FREEZE events, in the order in which their   *)
(* (collateral, debt, asset) keys first occur among the ownerless records  *)
(* of current; last the CLOSE events, in the order in which their keys     *)
(* first occur in previous.                                                *)
C10_OrderByPhase ==
    called =>
        \A m, n \in DOMAIN events :
            m < n =>
                /\ Phase(events[m].type) <= Phase(events[n].type)
                /\ (events[m].type = "CLOSE" /\ events[n].type = "CLOSE")
                      => PosOfKey(old_list, events[m]) < PosOfKey(old_list, events[n])
                /\ (events[m].type = "FREEZE" /\ events[n].type = "FREEZE")
                      => PosOfOwnerless(new_list, events[m])
                             < PosOfOwnerless(new_list, events[n])
                /\ (Phase(events[m].type) = 1 /\ Phase(events[n].type) = 1)
                      => PosOfKey(new_list, events[m]) < PosOfKey(new_list, events[n])

\* a call returned an event of each group, the FREEZE for a record that
\* stands in current before the record of the DEPOSIT or WITHDRAW
C10_Witness ==
    /\ called
    /\ \E m, n, k \in DOMAIN events :
           /\ m < n /\ n < k
           /\ events[m].type \in {"DEPOSIT", "WITHDRAW"}
           /\ events[n].type = "FREEZE"
           /\ events[k].type = "CLOSE"
           /\ PosOfOwnerless(new_list, events[n]) < PosOfKey(new_list, events[m])

----------------------------------------------------------------------------
\* the (owner, asset) keys of the owned dict the call builds from list
OwnedKeys(list) ==
    {dict_with_owner(with_owner(list))[n].key :
        n \in DOMAIN dict_with_owner(with_owner(list))}

\* the (collateral, debt, asset) keys of the ownerless dict built from list
OwnerlessKeys(list) ==
    {dict_without_owner(without_owner(list))[n].key :
        n \in DOMAIN dict_without_owner(without_owner(list))}

(* C11: a record whose owner is "" or "NULL" is keyed as a record without  *)
(* owner: its (collateralAmount, mintedAmount, asset) is a key of the      *)
(* ownerless dict and its (owner, asset) is no key of the owned dict.      *)
C11_SentinelKeyedOwnerless ==
    called =>
        \A list \in {old_list, new_list} :
            \A i \in DOMAIN list :
                list[i].owner \in {"", "NULL"}
                => /\ <<list[i].collateralAmount, list[i].mintedAmount,
                        list[i].asset>> \in OwnerlessKeys(list)
                   /\ <<list[i].owner, list[i].asset>> \notin OwnedKeys(list)

(* C12: the call returns a list for every pair of snapshots of complete    *)
(* records; a record of current with owner "NULL" whose key is absent from *)
(* previous raises nothing and gets no OPEN event.                         *)
C12_NeverRaises ==
    called =>
        /\ ~raised
        /\ \A i \in DOMAIN new_list :
               (new_list[i].owner = "NULL"
                    /\ ~HoldsKey(old_list, "NULL", new_list[i].asset))
               => \A n \in EventsOfKey("NULL", new_list[i].asset) :
                      events[n].type # "OPEN"

\* the records of previous that carry an owner value and the amounts and
\* asset of r: what find_corresponding_cdp_with_owner scans for r
Matching(r) ==
    {i \in DOMAIN old_list :
        /\ old_list[i].owner # None
        /\ old_list[i].collateralAmount = r.collateralAmount
        /\ old_list[i].mintedAmount = r.mintedAmount
        /\ old_list[i].asset = r.asset}

\* the FREEZE events the call returned for the ownerless record r of current
FreezesOf(r) ==
    {n \in DOMAIN events :
        /\ events[n].type = "FREEZE"
        /\ events[n].tx_id \in OwnerlessHashes(r)
        /\ events[n].ada = Div1e6(r.collateralAmount)
        /\ events[n].debt = Div1e6(r.mintedAmount)
        /\ events[n].iasset_name = r.asset}

(* C20: when an ownerless record new to current has the amounts and asset  *)
(* of several records of previous that carry an owner, its FREEZE event    *)
(* names the owner of the first of them in the order of previous, and the  *)
(* others are not exempted by it: each of them whose key current does not  *)
(* hold and no FREEZE event names gets its CLOSE event.                    *)
C20_FreezeFirstMatch ==
    called =>
        \A j \in DOMAIN new_list :
            LET r == new_list[j]
            IN  (/\ r.owner = None
                 /\ ~HoldsOwnerless(old_list, r)
                 /\ Cardinality(Matching(r)) >= 2)
                => \A n \in FreezesOf(r) :
                       /\ \E i \in Matching(r) :
                              /\ \A k \in Matching(r) : i <= k
                              /\ events[n].owner = old_list[i].owner
                       /\ \A i \in Matching(r) :
                              (/\ ~HoldsKey(new_list, old_list[i].owner, old_list[i].asset)
                               /\ \A m \in EventsOfKey(old_list[i].owner, old_list[i].asset) :
                                      events[m].type # "FREEZE")
                              => \E m \in EventsOfKey(old_list[i].owner, old_list[i].asset) :
                                     events[m].type = "CLOSE"

\* two owners of previous held the amounts of the one ownerless record of
\* current: the call returned a FREEZE for the first and a CLOSE for the other
C20_Witness ==
    /\ called
    /\ Len(old_list) = 2
    /\ RealOwner(old_list[1].owner) /\ RealOwner(old_list[2].owner)
    /\ old_list[1].owner # old_list[2].owner
    /\ \E j \in DOMAIN new_list :
           /\ new_list[j].owner = None
           /\ Matching(new_list[j]) = {1, 2}
           /\ FreezesOf(new_list[j]) # {}
    /\ \E m, n \in DOMAIN events :
           /\ events[m].type = "FREEZE" /\ events[m].owner = old_list[1].owner
           /\ events[n].type = "CLOSE" /\ events[n].owner = old_list[2].owner

----------------------------------------------------------------------------
(* The poll loops *)

(* C13: an iteration of the CDP loop whose fetch raises a network or HTTP  *)
(* error leaves the carried snapshot as it was, diffs nothing and posts    *)
(* nothing; every iteration that diffs does so between the last response   *)
(* fetched before it and the response it fetched, and while the loop runs  *)
(* the carried snapshot is the last response fetched.                      *)
C13_FailedFetchKeepsPrevious ==
    bot = "cdp" =>
        /\ cycle.outcome = "fetch_failed" =>
               /\ prev_cdps = cycle.old
               /\ cycle.diffed = <<>>
               /\ cycle.handed = <<>>
        /\ cycle.diffed # <<>> => cycle.diffed = <<cycle.before, last_fetched>>
        /\ pc = "running" => prev_cdps = last_fetched

\* after an iteration whose fetch failed, the next one fetched, diffed
\* against the snapshot carried over the failure and posted an event
C13_Witness ==
    /\ bot = "cdp"
    /\ cycle.retry
    /\ cycle.outcome = "sent"
    /\ cycle.handed # <<>>
    /\ cycle.diffed = <<cycle.old, prev_cdps>>

(* C14: a response that fails the schema validation is never handed to     *)
(* generate_cdp_events and never becomes the carried snapshot: its         *)
(* iteration ends like one whose fetch failed.                             *)
C14_RejectedNeverDiffed ==
    (bot = "cdp" /\ cycle.fetched # <<>>) =>
        (~cycle.fetched[1].valid =>
            /\ cycle.diffed = <<>>
            /\ cycle.handed = <<>>
            /\ prev_cdps = cycle.old)

(* C15: an iteration whose diff returns more than 20 events ends the       *)
(* process with sys.exit(1), with no event posted and the carried snapshot *)
(* as it was; after a diff that returns 20 events or fewer the loop runs   *)
(* on.                                                                     *)
C15_HaltAboveTwentyEvents ==
    bot = "cdp" =>
        /\ Len(cycle.events) > 20 =>
               /\ pc = "sys.exit(1)"
               /\ cycle.handed = <<>>
               /\ prev_cdps = cycle.old
        /\ (cycle.returned /\ Len(cycle.events) <= 20) => pc = "running"

\* a diff returned 21 events, all of them large enough to post
C15_Witness ==
    /\ bot = "cdp"
    /\ Len(cycle.events) = 21
    /\ \A n \in DOMAIN cycle.events : cycle.events[n].ada >= 25000
    /\ pc = "sys.exit(1)"
    /\ cycle.fetched # <<cycle.old>>

(* C16: when the delivery of an event fails, every later event of the same *)
(* iteration that meets the threshold is still handed to discord_comment.  *)
C16_LaterEventsStillHanded ==
    (bot = "cdp" /\ cycle.outcome = "delivery_failed") =>
        cycle.handed = SelectSeq(cycle.events, LAMBDA e : e.ada >= 25000)

(* C17: a failed delivery does not lose the delta: the carried snapshot is *)
(* not advanced past an event that was computed but not delivered.         *)
C17_NotAdvancedPastUndelivered ==
    (bot = "cdp" /\ cycle.outcome = "delivery_failed") => prev_cdps = cycle.old

(* C18: the carried snapshot is replaced, by the response just fetched,    *)
(* only in an iteration whose fetch and whose generate_cdp_events call     *)
(* both returned; in every other iteration it keeps its value.             *)
C18_AdvanceOnlyAfterDiff ==
    bot = "cdp" =>
        /\ prev_cdps # cycle.old =>
               (cycle.fetched = <<prev_cdps>> /\ cycle.returned)
        /\ (cycle.fetched = <<>> \/ ~cycle.returned) => prev_cdps = cycle.old

\* an iteration fetched a response that differs from the carried one, the
\* diff returned events and the carried snapshot is now that response
C18_Witness ==
    /\ bot = "cdp"
    /\ cycle.returned
    /\ cycle.events # <<>>
    /\ cycle.fetched = <<prev_cdps>>
    /\ prev_cdps # cycle.old
    /\ ~cycle.retry

(* C19: discord_comment is called only for events that meet the threshold, *)
(* 25,000 ADA of collateral delta for a CDP event and 100 ADA redeemed for *)
(* a redemption; when no delivery fails, the events handed over are the    *)
(* events of the list at or above the threshold, in the order of the list. *)
C19_ThresholdAndOrder ==
    /\ bot = "cdp" =>
           /\ \A n \in DOMAIN cycle.handed : cycle.handed[n].ada >= 25000
           /\ cycle.outcome = "sent" =>
                  cycle.handed = SelectSeq(cycle.events, LAMBDA e : e.ada >= 25000)
    /\ bot = "redemptions" =>
           /\ \A n \in DOMAIN cycle.handed : cycle.handed[n].ada_redeemed >= 100
           /\ cycle.outcome = "sent" =>
                  cycle.handed =
                      SelectSeq(cycle.events, LAMBDA e : e.ada_redeemed >= 100)

\* an iteration of the CDP loop computed an event below 25,000 ADA and one
\* of 25,000 ADA, and handed over the second alone
C19_Witness ==
    /\ bot = "cdp"
    /\ cycle.outcome = "sent"
    /\ Len(cycle.events) = 2
    /\ \E n \in DOMAIN cycle.events : cycle.events[n].ada < 25000
    /\ Len(cycle.handed) = 1
    /\ cycle.handed[1].ada = 25000

----------------------------------------------------------------------------
(* More of generate_cdp_events *)

\* no two records of list that carry an owner share (owner, asset)
UniqueKeys(list) ==
    \A i, j \in DOMAIN list :
        (i # j /\ list[i].owner # None /\ list[i].owner = list[j].owner)
            => list[i].asset # list[j].asset

(* C21: for snapshots with unique (owner, asset) keys, every owned key of  *)
(* previous that current does not hold is the subject of exactly one event *)
(* of kind FREEZE or CLOSE of the returned list.                           *)
C21_FreezeOrCloseOnce ==
    (called /\ UniqueKeys(old_list) /\ UniqueKeys(new_list)) =>
        \A i \in DOMAIN old_list :
            LET p == old_list[i]
            IN  (RealOwner(p.owner) /\ ~HoldsKey(new_list, p.owner, p.asset))
                => Cardinality({m \in EventsOfKey(p.owner, p.asset) :
                                   events[m].type \in {"FREEZE", "CLOSE"}}) = 1

(* C22: a FREEZE event is emitted only for an (owner, asset) key that the  *)
(* owned records of current do not hold, and no key gets both a FREEZE and *)
(* a DEPOSIT or WITHDRAW event in one call.                                *)
C22_FreezeOnlyForVanishedKey ==
    called =>
        \A n \in DOMAIN events :
            events[n].type = "FREEZE"
            => /\ ~HoldsKey(new_list, events[n].owner, events[n].iasset_name)
               /\ \A m \in EventsOfKey(events[n].owner, events[n].iasset_name) :
                      events[m].type \notin {"DEPOSIT", "WITHDRAW"}

(* C23: for an (owner, asset) key held by previous and by current with the *)
(* same collateralAmount the call emits no event, whatever the change of   *)
(* mintedAmount or output_hash.                                            *)
C23_NoEventForEqualCollateral ==
    called =>
        \A i \in DOMAIN old_list, j \in DOMAIN new_list :
            LET p == old_list[i]
                c == new_list[j]
            IN  (/\ RealOwner(c.owner)
                 /\ p.owner = c.owner /\ p.asset = c.asset
                 /\ p.collateralAmount = c.collateralAmount)
                => EventsOfKey(c.owner, c.asset) = {}

----------------------------------------------------------------------------
(* The liquidation bot (liquidations.py) *)

\* a record of the /api/liquidations response, with the fields the bot reads
Liquidation(id, slot, asset, oracle_price, ada_price, output_hash) ==
    [id |-> id, slot |-> slot, asset |-> asset, oracle_price |-> oracle_price,
     ada_price |-> ada_price, output_hash |-> output_hash]

\* bool(x) of a price of the response: null and "" are false
Truthy(x) == x \notin {None, ""}

\* liquidations 1 to 4; the second also as the API shows it while its prices
\* are still null, the fourth of an asset the bot does not know
LiquidationPool ==
    {Liquidation(1, 100000001, "iUSD", "0.35", "0.4", "tx_1"),
     Liquidation(2, 100000002, "iUSD", "0.35", "0.4", "tx_2"),
     Liquidation(2, 100000002, "iUSD", None, None, "tx_2"),
     Liquidation(3, 100000003, "iBTC", "0.00001", "0.4", "tx_3"),
     Liquidation(4, 100000004, "iSOL", "0.002", "0.4", "tx_4")}

\* what fetch_liquidations may return, whatever its `after` argument
LiquidationBatches == UNION {[1..n -> LiquidationPool] : n \in 0..MaxLen}

\* liquidations.py:54
slot_to_timestamp(slot) == slot - 4924800 + 1596491091

\* liquidations.py:176
sanity_check(liquidation) ==
    Truthy(liquidation.oracle_price) /\ Truthy(liquidation.ada_price)

\* liquidation_to_post_data raises AnalyticsApiException for no asset
every_iasset_known(iasset) == TRUE

\* liquidations.py:119-138: the assets liquidation_to_post_data has a branch for
iasset_known(iasset) == iasset \in {"iUSD", "iBTC", "iETH"}

\* get_last: max(lqs, key=id), the first of the maximal ones
get_last(lqs) ==
    lqs[CHOOSE i \in DOMAIN lqs :
            /\ \A j \in DOMAIN lqs : lqs[j].id <= lqs[i].id
            /\ \A j \in 1..(i - 1) : lqs[j].id < lqs[i].id]

\* how a fetch or a webhook request can fail: with an error that
\* check_liquidations catches (URLError, HTTPError) or with one that only the
\* main loop catches (RemoteDisconnected, HTTPException, socket.timeout)
NetworkErrors == {"URLError", "RemoteDisconnected"}

\* the state of a check_liquidations call: local_last, the liquidations
\* posted, and how the call ended ("": it has not)
LqState(local_last, posted, exit) ==
    [local_last |-> local_last, posted |-> posted, exit |-> exit]

\* a liquidation is posted when its id is not below the cursor's
newer_or_last(lq, last_processed) == lq.id >= last_processed.id

\* liquidations.py:202
newer(lq, last_processed) == lq.id > last_processed.id

\* lines 198-211: the loop of check_liquidations from the i-th entry on; the
\* webhook request number webhook.fail_at of the call fails (0: none)
RECURSIVE lq_loop(_, _, _, _, _)
lq_loop(new_lqs, i, last_processed, webhook, st) ==
    IF i > Len(new_lqs) THEN LqState(st.local_last, st.posted, "return")
    ELSE LET lq == new_lqs[i]
             local_last == IF lq.id > st.local_last.id THEN lq ELSE st.local_last
         IN  IF ~sanity_check(lq)
             THEN LqState(st.local_last, st.posted, "return")
             ELSE IF newer(lq, last_processed)
             THEN IF ~iasset_known(lq.asset)
                  THEN LqState(st.local_last, st.posted, "AnalyticsApiException")
                  ELSE IF webhook.fail_at = Len(st.posted) + 1
                  THEN LqState(st.local_last, st.posted,
                               IF webhook.error = "URLError"
                               THEN "return" ELSE webhook.error)
                  ELSE lq_loop(new_lqs, i + 1, last_processed, webhook,
                               LqState(local_last, Append(st.posted, lq), ""))
             ELSE lq_loop(new_lqs, i + 1, last_processed, webhook,
                          LqState(local_last, st.posted, ""))

\* check_liquidations(last_processed): fetch is the error the fetch raises or
\* None, new_lqs what it returns otherwise
check_liquidations(last_processed, fetch, new_lqs, webhook) ==
    IF fetch = "URLError" THEN LqState(last_processed, <<>>, "return")
    ELSE IF fetch # None THEN LqState(last_processed, <<>>, fetch)
    ELSE lq_loop(new_lqs, 1, last_processed, webhook,
                 LqState(last_processed, <<>>, ""))

\* one more delivery of each element of keys, counted up to 2
RECURSIVE Counted(_, _)
Counted(times, keys) ==
    IF keys = <<>> THEN times
    ELSE Counted([k \in DOMAIN times \cup {keys[1]} |->
                     IF k = keys[1]
                     THEN (IF k \in DOMAIN times
                           THEN (IF times[k] < 2 THEN times[k] + 1 ELSE 2)
                           ELSE 1)
                     ELSE times[k]],
                 Tail(keys))

\* none of the loops of cdp.py and redemptions.py runs
NoPolling ==
    /\ prev_cdps = Response(TRUE, <<>>)
    /\ prev_redemptions = Redemptions({}, {})
    /\ last_fetched = Response(TRUE, <<>>)

\* an iteration of the loop of liquidations.py: the argument of the call,
\* the timestamp it fetched after, the error of the fetch or None, the batch
\* fetched, the liquidations posted, how the call ended and what it returned
LqCycle(last_processed, after, fetch, new_lqs, st) ==
    [last_processed |-> last_processed, after |-> after, fetch |-> fetch,
     new_lqs |-> new_lqs, posted |-> st.posted, exit |-> st.exit,
     returned |-> IF st.exit = "return" THEN <<st.local_last>> ELSE <<>>]

\* main before the loop: last_lq = get_last(fetch_liquidations())
InitLiquidations ==
    /\ NotCalled
    /\ NoPolling
    /\ bot = "liquidations"
    /\ pc = "running"
    /\ \E lqs \in LiquidationBatches \ {<<>>} : last_lq = get_last(lqs)
    /\ cycle = LqCycle(last_lq, 0, None, <<>>, LqState(last_lq, <<>>, "none"))
    /\ clock = 0
    /\ epoch_tracking_file = None
    /\ processed_links = {}
    /\ processed_links_file = {}
    /\ times_posted = <<>>

\* the main loop after a check_liquidations call that ended in state st:
\* a returned value is assigned to last_lq, AnalyticsApiException ends the
\* process with sys.exit(1), a network error is logged
LqChecked(fetch, new_lqs, st) ==
    /\ last_lq' = IF st.exit = "return" THEN st.local_last ELSE last_lq
    /\ pc' = IF st.exit = "AnalyticsApiException" THEN "sys.exit(1)" ELSE "running"
    /\ times_posted' = Counted(times_posted, [n \in DOMAIN st.posted |-> st.posted[n].id])
    /\ cycle' = LqCycle(last_lq, slot_to_timestamp(last_lq.slot), fetch, new_lqs, st)

\* An iteration whose fetch_liquidations raises.
LqFetchFails ==
    /\ bot = "liquidations"
    /\ pc = "running"
    /\ \E fetch \in NetworkErrors :
           LqChecked(fetch, <<>>,
                     check_liquidations(last_lq, fetch, <<>>,
                                        [fail_at |-> 0, error |-> "URLError"]))
    /\ UNCHANGED <<bot, prev_cdps, prev_redemptions, last_fetched>>
    /\ UNCHANGED <<clock, epoch_tracking_file, processed_links, processed_links_file>>
    /\ UNCHANGED call_vars

\* An iteration whose fetch_liquidations returns a batch.
LqCheck ==
    /\ bot = "liquidations"
    /\ pc = "running"
    /\ \E new_lqs \in LiquidationBatches :
           \E fail_at \in 0..Len(new_lqs), error \in NetworkErrors :
               /\ (fail_at = 0 => error = "URLError")
               /\ LqChecked(None, new_lqs,
                            check_liquidations(last_lq, None, new_lqs,
                                [fail_at |-> fail_at, error |-> error]))
    /\ UNCHANGED <<bot, prev_cdps, prev_redemptions, last_fetched>>
    /\ UNCHANGED <<clock, epoch_tracking_file, processed_links, processed_links_file>>
    /\ UNCHANGED call_vars

NextLiquidations == LqFetchFails \/ LqCheck

SpecLiquidations == InitLiquidations /\ [][NextLiquidations]_vars

(* C24: over the calls of the main loop, each given the value the call     *)
(* before it returned, no liquidation id is posted to the webhook more     *)
(* than once.                                                              *)
C24_PostedAtMostOnce ==
    bot = "liquidations" =>
        \A id \in DOMAIN times_posted : times_posted[id] <= 1

(* C25 as claimed: the call returns a liquidation whose id is not below    *)
(* that of last_processed; when the fetch fails, it returns last_processed *)
(* itself and posts nothing; no liquidation is posted whose id is not      *)
(* above that of last_processed.                                           *)
C25_ReturnsCursorWhenFetchFails ==
    (bot = "liquidations" /\ cycle.exit # "none") =>
        /\ cycle.returned # <<>> => cycle.returned[1].id >= cycle.last_processed.id
        /\ cycle.fetch # None =>
               (cycle.returned = <<cycle.last_processed>> /\ cycle.posted = <<>>)
        /\ \A n \in DOMAIN cycle.posted :
               cycle.posted[n].id > cycle.last_processed.id

(* C25 as the code has it: a call that returns, returns a liquidation      *)
(* whose id is not below that of last_processed; when the fetch fails with *)
(* URLError the call returns last_processed itself and posts nothing, when *)
(* it fails with an error that only the main loop catches the call posts   *)
(* nothing and raises it, and last_lq keeps its value; no liquidation is   *)
(* posted whose id is not above that of last_processed.                    *)
C25_ReturnsOrRaisesWhenFetchFails ==
    (bot = "liquidations" /\ cycle.exit # "none") =>
        /\ cycle.returned # <<>> => cycle.returned[1].id >= cycle.last_processed.id
        /\ cycle.fetch = "URLError" =>
               (cycle.returned = <<cycle.last_processed>> /\ cycle.posted = <<>>)
        /\ cycle.fetch \notin {None, "URLError"} =>
               /\ cycle.exit = cycle.fetch
               /\ cycle.returned = <<>>
               /\ cycle.posted = <<>>
               /\ last_lq = cycle.last_processed
               /\ pc = "running"
        /\ \A n \in DOMAIN cycle.posted :
               cycle.posted[n].id > cycle.last_processed.id

\* after a call that posted liquidation 3 and moved the cursor to it, the
\* fetch of the next call failed with an error only the main loop catches
C25_Witness ==
    /\ bot = "liquidations"
    /\ cycle.fetch = "RemoteDisconnected"
    /\ cycle.last_processed.id = 3
    /\ 3 \in DOMAIN times_posted
    /\ last_lq = cycle.last_processed

(* C26: when the call returns, every liquidation of the fetched batch      *)
(* whose id is above that of last_processed and not above that of the      *)
(* returned liquidation has been posted.                                   *)
C26_NothingSkippedBelowCursor ==
    (bot = "liquidations" /\ cycle.returned # <<>>) =>
        \A i \in DOMAIN cycle.new_lqs :
            (/\ cycle.new_lqs[i].id > cycle.last_processed.id
             /\ cycle.new_lqs[i].id <= cycle.returned[1].id)
            => \E n \in DOMAIN cycle.posted :
                   cycle.posted[n].id = cycle.new_lqs[i].id

\* the call came to post the i-th entry of the batch: the entries before it
\* passed the sanity check and the new ones among them were all posted
CameToPost(i) ==
    /\ \A j \in 1..i : sanity_check(cycle.new_lqs[j])
    /\ cycle.new_lqs[i].id > cycle.last_processed.id
    /\ Cardinality({j \in 1..(i - 1) :
                       cycle.new_lqs[j].id > cycle.last_processed.id})
           = Len(cycle.posted)

----------------------------------------------------------------------------
(* The LP rewards bot (lp_rewards_epoch_bot.py) *)

\* lp_rewards_epoch_bot.py:29
GENESIS_BLOCK_START_TIME_SECONDS == 1506203091

\* lp_rewards_epoch_bot.py:30
EPOCH_LENGTH_SECONDS == 432000

\* get_current_epoch, for time.time() = now
get_current_epoch(now) ==
    (now - GENESIS_BLOCK_START_TIME_SECONDS) \div EPOCH_LENGTH_SECONDS

\* the times the loop may run at: the first and the last second of an epoch
Times ==
    {GENESIS_BLOCK_START_TIME_SECONDS + epoch * EPOCH_LENGTH_SECONDS + second :
        epoch \in 0..MaxEpoch, second \in {0, EPOCH_LENGTH_SECONDS - 1}}

\* what load_last_posted_epoch may find: no file, or no epoch in it (None,
\* here NoValue), or an epoch
StoredEpochs == {NoValue} \cup {Some(epoch) : epoch \in 0..MaxEpoch}

\* the epoch is posted again while it is the stored one
new_or_same_epoch(current_epoch, last_posted_epoch) ==
    last_posted_epoch = NoValue \/ current_epoch >= last_posted_epoch[1]

\* lp_rewards_epoch_bot.py:179
new_epoch(current_epoch, last_posted_epoch) ==
    last_posted_epoch = NoValue \/ current_epoch > last_posted_epoch[1]

\* the epoch is saved before the message is fetched and sent
stored_before_send(current_epoch, last_posted_epoch, failure) ==
    Some(current_epoch)

\* lines 182-199: the file after an attempt to post; save_last_posted_epoch
\* is reached when neither fetch_lp_distribution nor send_discord_message
\* raised
stored_after(current_epoch, last_posted_epoch, failure) ==
    IF failure = "none" THEN Some(current_epoch) ELSE last_posted_epoch

\* an iteration of the loop of lp_rewards_epoch_bot.py: the two values it
\* started with, whether it tried to post, what failed, and whether the
\* iteration before it tried and failed
LpCycle(current_epoch, last_posted_epoch, attempted, failure, retry) ==
    [current_epoch |-> current_epoch, last_posted_epoch |-> last_posted_epoch,
     attempted |-> attempted, failure |-> failure,
     sent |-> attempted /\ failure = "none", retry |-> retry]

InitLpRewards ==
    /\ NotCalled
    /\ NoPolling
    /\ bot = "lp_rewards"
    /\ pc = "running"
    /\ clock \in Times
    /\ epoch_tracking_file \in StoredEpochs
    /\ cycle = LpCycle(get_current_epoch(clock), epoch_tracking_file, FALSE, "none", FALSE)
    /\ last_lq = None
    /\ processed_links = {}
    /\ processed_links_file = {}
    /\ times_posted = <<>>

\* the iteration at time now, with what fails in it
LpAt(now, failure) ==
    LET current_epoch == get_current_epoch(now)
        last_posted_epoch == epoch_tracking_file
    IN  /\ clock' = now
        /\ IF new_epoch(current_epoch, last_posted_epoch)
           THEN /\ epoch_tracking_file' =
                       stored_after(current_epoch, last_posted_epoch, failure)
                /\ times_posted' =
                       IF failure = "none"
                       THEN Counted(times_posted, <<current_epoch>>)
                       ELSE times_posted
                /\ cycle' = LpCycle(current_epoch, last_posted_epoch, TRUE, failure,
                                    cycle.attempted /\ cycle.failure # "none")
           ELSE /\ failure = "none"
                /\ UNCHANGED <<epoch_tracking_file, times_posted>>
                /\ cycle' = LpCycle(current_epoch, last_posted_epoch, FALSE, "none",
                                    cycle.attempted /\ cycle.failure # "none")

\* An iteration of the loop, at a time not before that of the last one; the
\* fetch of the distribution or the webhook request may fail.
LpIteration ==
    /\ bot = "lp_rewards"
    /\ pc = "running"
    /\ \E now \in Times, failure \in {"none", "fetch", "send"} :
           now >= clock /\ LpAt(now, failure)
    /\ UNCHANGED <<bot, pc, prev_cdps, prev_redemptions, last_fetched>>
    /\ UNCHANGED <<last_lq, processed_links, processed_links_file>>
    /\ UNCHANGED call_vars

NextLpRewards == LpIteration

SpecLpRewards == InitLpRewards /\ [][NextLpRewards]_vars

(* C28: the epoch file is written only after the rewards message of that   *)
(* epoch was sent; when the fetch of the distribution or the sending       *)
(* fails, the stored epoch is as it was, the current epoch still counts as *)
(* new, and the iteration after a failed one tries to post again.          *)
C28_SavedOnlyAfterSent ==
    bot = "lp_rewards" =>
        /\ epoch_tracking_file # cycle.last_posted_epoch =>
               (cycle.sent /\ epoch_tracking_file = Some(cycle.current_epoch))
        /\ (cycle.attempted /\ cycle.failure # "none") =>
               /\ ~cycle.sent
               /\ epoch_tracking_file = cycle.last_posted_epoch
               /\ \/ epoch_tracking_file = NoValue
                  \/ get_current_epoch(clock) > epoch_tracking_file[1]
        /\ cycle.retry => cycle.attempted

\* the iteration after a failed one sent the message and stored the epoch
C28_Witness ==
    /\ bot = "lp_rewards"
    /\ cycle.retry
    /\ cycle.sent
    /\ cycle.last_posted_epoch # NoValue
    /\ epoch_tracking_file = Some(cycle.current_epoch)
    /\ cycle.current_epoch > cycle.last_posted_epoch[1]

(* C29: the stored epoch never decreases, and for no epoch number more     *)
(* than one rewards message is posted.                                     *)
C29_OnePostPerEpoch ==
    bot = "lp_rewards" =>
        /\ cycle.last_posted_epoch # NoValue =>
               /\ epoch_tracking_file # NoValue
               /\ epoch_tracking_file[1] >= cycle.last_posted_epoch[1]
        /\ \A epoch \in DOMAIN times_posted : times_posted[epoch] <= 1

\* messages were posted for two epochs, and the loop ran again in the second
C29_Witness ==
    /\ bot = "lp_rewards"
    /\ Cardinality(DOMAIN times_posted) = 2
    /\ ~cycle.attempted
    /\ epoch_tracking_file = Some(cycle.current_epoch)
    /\ cycle.current_epoch \in DOMAIN times_posted

----------------------------------------------------------------------------
(* The PoCoP bot (pocop.py) *)

\* PoCoPSubmission, with the fields the loop reads; date is Some(day), or
\* NoValue for a string datetime.fromisoformat rejects (parse_submission
\* puts "" for a missing date)
PoCoPSubmission(link, date) == [link |-> link, date |-> date]

\* the submissions the API answers with: two of one link, one without a
\* link, one without a date
SubmissionPool ==
    {PoCoPSubmission("link_a", Some(2)), PoCoPSubmission("link_a", Some(1)),
     PoCoPSubmission("link_b", Some(1)), PoCoPSubmission("", Some(1)),
     PoCoPSubmission("link_c", NoValue)}

\* what get_latest_submissions returns: the pages it fetched, in order
Fetches == UNION {[1..n -> SubmissionPool] : n \in 0..MaxLen}

\* the filter without the test of the link itself
is_unprocessed(s, processed) == s.link \notin processed

\* pocop.py:246-248, the filter of the list comprehension
is_new(s, processed) == Truthy(s.link) /\ s.link \notin processed

\* the key function of line 251 raises for some submission
sort_raises(submissions) ==
    \E i \in 1..Len(submissions) : submissions[i].date = NoValue

\* list.sort puts s behind every submission whose date is not later
insort(sorted, s) ==
    LET k == Cardinality({i \in 1..Len(sorted) : sorted[i].date[1] <= s.date[1]})
    IN  SubSeq(sorted, 1, k) \o <<s>> \o SubSeq(sorted, k + 1, Len(sorted))

RECURSIVE sorted_by_date(_)
\* pocop.py:251, list.sort by date: stable, oldest first
sorted_by_date(submissions) ==
    IF submissions = <<>>
    THEN <<>>
    ELSE insort(sorted_by_date(SubSeq(submissions, 1, Len(submissions) - 1)),
                submissions[Len(submissions)])

\* the loop's view of the set, the file and the deliveries made
PocopState(processed, file, posted, failed) ==
    [processed_links |-> processed, processed_links_file |-> file,
     posted |-> posted, failed |-> failed]

RECURSIVE pocop_loop(_, _, _, _)
\* pocop.py:253-259: deliver, add the link, save the set; the delivery
\* number fail_at raises, which ends the loop
pocop_loop(new_submissions, i, fail_at, st) ==
    IF i > Len(new_submissions)
    THEN st
    ELSE IF i = fail_at
    THEN [st EXCEPT !.failed = Some(new_submissions[i])]
    ELSE LET added == st.processed_links \cup {new_submissions[i].link}
         IN  pocop_loop(new_submissions, i + 1, fail_at,
                        PocopState(added, added,
                                   Append(st.posted, new_submissions[i]),
                                   NoValue))

\* the body of the try of the main loop, lines 245-259
pocop_cycle(submissions, processed, file, fail_at) ==
    LET new_submissions == SelectSeq(submissions, LAMBDA s : is_new(s, processed))
        st == PocopState(processed, file, <<>>, NoValue)
    IN  IF sort_raises(new_submissions)
        THEN [st |-> st, new_submissions |-> new_submissions, sorted |-> FALSE]
        ELSE [st |-> pocop_loop(sorted_by_date(new_submissions), 1, fail_at, st),
              new_submissions |-> sorted_by_date(new_submissions),
              sorted |-> TRUE]

\* an iteration of the main loop of pocop.py: what it fetched, the set it
\* started with, the submissions it went through (after the sort, when the
\* sort did not raise), those delivered, and the one whose delivery raised
PocopCycle(submissions, processed, c) ==
    [submissions |-> submissions, processed |-> processed,
     new_submissions |-> c.new_submissions, sorted |-> c.sorted,
     posted |-> c.st.posted, failed |-> c.st.failed]

RECURSIVE links_of(_)
links_of(submissions) ==
    IF submissions = <<>>
    THEN <<>>
    ELSE <<submissions[1].link>> \o links_of(Tail(submissions))

InitPocop ==
    /\ NotCalled
    /\ NoPolling
    /\ bot = "pocop"
    /\ pc = "running"
    /\ processed_links \in SUBSET {"link_a", "link_b"}
    /\ processed_links_file = processed_links
    /\ cycle = PocopCycle(<<>>, processed_links,
                          pocop_cycle(<<>>, processed_links, processed_links, 0))
    /\ last_lq = None
    /\ clock = 0
    /\ epoch_tracking_file = None
    /\ times_posted = <<>>

\* An iteration of the main loop: the API answers with some submissions
\* and the webhook request number fail_at raises (0: none does).
PocopPoll ==
    /\ bot = "pocop"
    /\ pc = "running"
    /\ \E submissions \in Fetches, fail_at \in 0..MaxLen :
           LET c == pocop_cycle(submissions, processed_links,
                                processed_links_file, fail_at)
           IN  /\ processed_links' = c.st.processed_links
               /\ processed_links_file' = c.st.processed_links_file
               /\ times_posted' = Counted(times_posted, links_of(c.st.posted))
               /\ cycle' = PocopCycle(submissions, processed_links, c)
    /\ UNCHANGED <<bot, pc, prev_cdps, prev_redemptions, last_fetched>>
    /\ UNCHANGED <<last_lq, clock, epoch_tracking_file>>
    /\ UNCHANGED call_vars

NextPocop == PocopPoll

SpecPocop == InitPocop /\ [][NextPocop]_vars

\* the links of the submissions from the failed one on
LinksFromFailed ==
    LET n == Len(cycle.posted)
    IN  {cycle.new_submissions[i].link : i \in (n + 1)..Len(cycle.new_submissions)}

(* C30: a link enters processed_links only after its notification was      *)
(* delivered, processed_links only grows, the file holds the set after     *)
(* every delivery, and a failed delivery leaves the failing link and the   *)
(* links behind it in the batch unprocessed.                               *)
C30_ProcessedOnlyWhenDelivered ==
    bot = "pocop" =>
        /\ processed_links \ cycle.processed \subseteq
               {cycle.posted[i].link : i \in 1..Len(cycle.posted)}
        /\ cycle.processed \subseteq processed_links
        /\ processed_links_file = processed_links
        /\ cycle.failed # NoValue => LinksFromFailed \cap processed_links = {}

(* C31: over all poll cycles no submission link is posted to the webhook   *)
(* more than once, also when one fetch holds the link in two submissions.  *)
C31_LinkPostedAtMostOnce ==
    bot = "pocop" => \A link \in DOMAIN times_posted : times_posted[link] <= 1

(* C32: within one poll cycle the submissions are posted in non-decreasing *)
(* order of their date, and no submission with an empty link is posted.    *)
C32_OldestFirstNoEmptyLink ==
    bot = "pocop" =>
        /\ \A i, j \in 1..Len(cycle.posted) :
               i < j => cycle.posted[i].date[1] <= cycle.posted[j].date[1]
        /\ \A i \in 1..Len(cycle.posted) : cycle.posted[i].link # ""

\* the API answered with the newer submission first, and the cycle posted
\* both, the older one first
C32_Witness ==
    /\ bot = "pocop"
    /\ Len(cycle.submissions) = 2
    /\ cycle.submissions[1].date # NoValue
    /\ cycle.submissions[2].date # NoValue
    /\ cycle.submissions[1].date[1] > cycle.submissions[2].date[1]
    /\ cycle.posted = <<cycle.submissions[2], cycle.submissions[1]>>

====
